---- MODULE Spec2Model ----
(***************************************************************************)
(* Streamlit sales dashboard (src/app.py).  The script is re-executed from *)
(* top to bottom on every user interaction; the only state that survives a *)
(* run is the widget state kept by the framework and the temporary file    *)
(* the Google Drive path leaves on disk.  Every action below is one user   *)
(* interaction followed by the whole script run it triggers.               *)
(***************************************************************************)
EXTENDS Integers, Sequences, FiniteSets, TLC

\* ------------------------------------------------------------------ bounds
\* Longest table generated over the Date/Product/Sales header.
MaxRows == 3
\* Longest table generated over each of the other headers.
MaxLayoutRows == 2
\* Rows of the many-category tables used for the top-N chart.
WideRows == 7

\* ------------------------------------------------------------- text values
\* Column and file names are strings; Spelling gives their characters, so that
\* str.lower(), the `in` substring test and str.endswith() are computed.
Spelling(s) ==
    CASE s = "Date"       -> <<"D","a","t","e">>
      [] s = "Updated"    -> <<"U","p","d","a","t","e","d">>
      [] s = "Sales"      -> <<"S","a","l","e","s">>
      [] s = "REVENUE"    -> <<"R","E","V","E","N","U","E">>
      [] s = "Amount"     -> <<"A","m","o","u","n","t">>
      [] s = "Product"    -> <<"P","r","o","d","u","c","t">>
      [] s = "Item"       -> <<"I","t","e","m">>
      [] s = "Category"   -> <<"C","a","t","e","g","o","r","y">>
      [] s = "Region"     -> <<"R","e","g","i","o","n">>
      [] s = "Qty"        -> <<"Q","t","y">>
      [] s = "sales.csv"  -> <<"s","a","l","e","s",".","c","s","v">>
      [] s = "sales.xlsx" -> <<"s","a","l","e","s",".","x","l","s","x">>
      [] s = "SALES.CSV"  -> <<"S","A","L","E","S",".","C","S","V">>

UpperCase == <<"A","B","C","D","E","F","G","H","I","J","K","L","M",
               "N","O","P","Q","R","S","T","U","V","W","X","Y","Z">>
LowerCase == <<"a","b","c","d","e","f","g","h","i","j","k","l","m",
               "n","o","p","q","r","s","t","u","v","w","x","y","z">>

\* str.lower() on a character sequence.
LowerChar(c) ==
    IF \E i \in 1..Len(UpperCase) : UpperCase[i] = c
    THEN LowerCase[CHOOSE i \in 1..Len(UpperCase) : UpperCase[i] = c]
    ELSE c
Lower(w) == [i \in 1..Len(w) |-> LowerChar(w[i])]

\* needle in hay (Python substring test).
Contains(hay, needle) ==
    \E i \in 0..(Len(hay) - Len(needle)) :
        SubSeq(hay, i + 1, i + Len(needle)) = needle

\* hay.endswith(suffix)
EndsWith(hay, suffix) ==
    /\ Len(hay) >= Len(suffix)
    /\ SubSeq(hay, Len(hay) - Len(suffix) + 1, Len(hay)) = suffix

KwDate     == <<"d","a","t","e">>
KwSales    == <<"s","a","l","e","s">>
KwRevenue  == <<"r","e","v","e","n","u","e">>
KwAmount   == <<"a","m","o","u","n","t">>
KwProduct  == <<"p","r","o","d","u","c","t">>
KwCategory == <<"c","a","t","e","g","o","r","y">>
KwItem     == <<"i","t","e","m">>
ExtCsv     == <<".","c","s","v">>

\* The column names that occur in the inputs.
ColumnNames == {"Date", "Updated", "Sales", "REVENUE", "Amount", "Product",
                "Item", "Category", "Region", "Qty"}

\* Line 84: 'date' in col.lower(), as the set of names that pass the test.
DateNames == {col \in ColumnNames : Contains(Lower(Spelling(col)), KwDate)}
IsDateName(col) == col \in DateNames
\* Line 122
SalesNames ==
    {col \in ColumnNames :
        \/ Contains(Lower(Spelling(col)), KwSales)
        \/ Contains(Lower(Spelling(col)), KwRevenue)
        \/ Contains(Lower(Spelling(col)), KwAmount)}
IsSalesName(col) == col \in SalesNames
\* Line 145
ProductNames ==
    {col \in ColumnNames :
        \/ Contains(Lower(Spelling(col)), KwProduct)
        \/ Contains(Lower(Spelling(col)), KwCategory)
        \/ Contains(Lower(Spelling(col)), KwItem)}
IsProductName(col) == col \in ProductNames

\* ------------------------------------------------------------------ cells
\* A cell of a DataFrame: text, number, timestamp or the missing marker
\* (NaN / NaT).  One record shape, so cells of different kinds compare.
Str(s)  == [t |-> "str",  s |-> s,  n |-> 0]
Num(n)  == [t |-> "num",  s |-> "", n |-> n]
Stamp(n) == [t |-> "date", s |-> "", n |-> n]
NaN     == [t |-> "nan",  s |-> "", n |-> 0]
IsNa(c) == c.t = "nan"

\* --------------------------------------------------------- input universe
\* A file's tabular content: a header and rows of cells aligned with it.
Sheet(columns, rows) == [columns |-> columns, rows |-> rows]

\* All sequences of 1..n elements of S.
SeqsUpTo(S, n) == UNION {[1..k -> S] : k \in 1..n}

D1 == Str("2024-01-01")
D2 == Str("2024-01-02")
BadDate == Str("n/a")

\* Date, Product, Sales: the rows of the worked example of the documentation,
\* plus a row with a missing category and an unparsable date.
MainColumns == <<"Date", "Product", "Sales">>
MainRows ==
    { <<D1, Str("A"), Num(100)>>,
      <<D1, Str("B"), Num(50)>>,
      <<D2, Str("A"), Num(30)>>,
      <<BadDate, NaN, Num(7)>> }

\* One header for each combination of present and absent role columns, some
\* with several columns matching the same role.
Layouts ==
    { [columns |-> <<"Region", "Qty">>,
       pool |-> {<<Str("N"), Num(1)>>, <<Str("S"), Num(2)>>}],
      [columns |-> <<"Date", "Region">>,
       pool |-> {<<D1, Str("N")>>, <<BadDate, Str("S")>>}],
      [columns |-> <<"Qty", "Amount">>,
       pool |-> {<<Num(1), Num(10)>>, <<Num(2), NaN>>}],
      [columns |-> <<"Category", "Region">>,
       pool |-> {<<Str("A"), Str("N")>>, <<NaN, Str("S")>>}],
      [columns |-> <<"Updated", "Date", "REVENUE">>,
       pool |-> {<<D2, D1, Num(4)>>, <<D1, NaN, NaN>>}],
      [columns |-> <<"Item", "Updated">>,
       pool |-> {<<Str("A"), D1>>, <<Str("B"), BadDate>>}],
      [columns |-> <<"Region", "Item", "Product", "REVENUE", "Sales">>,
       pool |-> {<<Str("N"), Str("A"), Str("B"), Num(3), Num(9)>>,
                 <<Str("S"), NaN, Str("A"), Num(2), Num(8)>>}] }

\* Many categories, so that the top-N truncation has something to cut:
\* WideRows rows over six products, amounts following a pattern k.
WideCats == <<"P1", "P2", "P3", "P4", "P5", "P6">>
WideSheet(k) ==
    Sheet(<<"Product", "Sales">>,
          [i \in 1..WideRows |->
              <<Str(WideCats[((i - 1) % Len(WideCats)) + 1]), Num((i * k) % 5)>>])

SmallSheet == Sheet(<<"Product", "Sales">>, << <<Str("A"), Num(1)>> >>)

Sheets ==
    {Sheet(MainColumns, r) : r \in SeqsUpTo(MainRows, MaxRows)}
    \cup UNION { {Sheet(l.columns, r) : r \in SeqsUpTo(l.pool, MaxLayoutRows)} :
                 l \in Layouts }
    \cup {WideSheet(k) : k \in 1..3}

\* An uploaded file: its name, the format its bytes really are in, and the
\* content they hold when they parse.
Upload(name, format, sheet) == [name |-> name, format |-> format, sheet |-> sheet]
EmptySheet == Sheet(<<>>, <<>>)
NoFile == Upload("", "none", EmptySheet)
UploadedFiles ==
    {Upload("sales.csv", "csv", s) : s \in Sheets}
    \cup {Upload("sales.xlsx", "xlsx", SmallSheet),
          Upload("sales.csv", "garbage", EmptySheet),
          Upload("sales.xlsx", "garbage", EmptySheet),
          Upload("SALES.CSV", "csv", SmallSheet)}
\* The files a user drops on an uploader that already holds a file.
ReplacementFiles ==
    {Upload("sales.csv", "csv", SmallSheet),
     Upload("sales.csv", "csv", WideSheet(3)),
     Upload("sales.csv", "garbage", EmptySheet)}

\* Google Drive: the file identifiers a user may type.  idA is a shared CSV
\* file; idB is a file that cannot be fetched (not shared, or no such file).
FileIds == {"", "idA", "idB"}
DriveFile(id) ==
    Sheet(MainColumns, << <<D1, Str("A"), Num(100)>>, <<D2, Str("B"), Num(50)>> >>)
\* What gdown.download may do for an identifier.
DownloadResults(id) ==
    IF id = "idA" THEN {"ok", "raised", "returned_none"}
    ELSE IF id = "idB" THEN {"raised", "returned_none"}
    ELSE {"ok"}

\* ---------------------------------------------------------------- pandas
\* A DataFrame: ordered columns, one dtype per column, rows in file order.
Frame(columns, dtypes, rows) == [columns |-> columns, dtypes |-> dtypes, rows |-> rows]
EmptyFrame == Frame(<<>>, <<>>, <<>>)

Range(f) == {f[i] : i \in DOMAIN f}

\* The dtype the CSV/Excel reader infers for a column from its cells.
InferDtype(cells) ==
    IF \E i \in DOMAIN cells : cells[i].t = "str" THEN "object"
    ELSE IF \E i \in DOMAIN cells : IsNa(cells[i]) THEN "float64"
    ELSE "int64"

\* pd.read_csv / pd.read_excel on content that parses.
ParseSheet(sheet) ==
    Frame(sheet.columns,
          [j \in DOMAIN sheet.columns |->
              InferDtype([i \in DOMAIN sheet.rows |-> sheet.rows[i][j]])],
          sheet.rows)

ColIndex(df, col) == CHOOSE j \in DOMAIN df.columns : df.columns[j] = col
\* df[col]
Series(df, col) == [i \in DOMAIN df.rows |-> df.rows[i][ColIndex(df, col)]]

\* The timestamps the date texts of the inputs parse to.
DateValue(s) ==
    CASE s = "2024-01-01" -> 20240101
      [] s = "2024-01-02" -> 20240102
      [] OTHER -> 0
\* pd.to_datetime(..., errors='coerce') on one cell: text that is no date, and
\* a missing value, become NaT.
ToDatetime(c) ==
    IF c.t = "str" /\ DateValue(c.s) # 0 THEN Stamp(DateValue(c.s))
    ELSE IF c.t = "date" THEN c
    ELSE NaN

\* Line 84: [col for col in df.columns if 'date' in col.lower()]
DateColumns(df) == SelectSeq(df.columns, IsDateName)

\* Lines 85-86: the first date column is converted in place.
CoerceDates(df) ==
    IF DateColumns(df) = <<>> THEN df
    ELSE LET j == ColIndex(df, DateColumns(df)[1])
         IN  Frame(df.columns,
                   [k \in DOMAIN df.columns |->
                       IF k = j THEN "datetime64" ELSE df.dtypes[k]],
                   [i \in DOMAIN df.rows |->
                       [k \in DOMAIN df.columns |->
                           IF k = j THEN ToDatetime(df.rows[i][k])
                           ELSE df.rows[i][k]]])

\* Line 97: df.select_dtypes(include=['object']).columns.tolist()
RECURSIVE ColumnsOfDtype(_, _, _)
ColumnsOfDtype(df, kinds, j) ==
    IF j > Len(df.columns) THEN <<>>
    ELSE (IF df.dtypes[j] \in kinds THEN <<df.columns[j]>> ELSE <<>>)
         \o ColumnsOfDtype(df, kinds, j + 1)
CategoricalCols(df) == ColumnsOfDtype(df, {"object"}, 1)
\* Line 230
NumericCols(df) == ColumnsOfDtype(df, {"int64", "float64"}, 1)

\* Line 101: Series.unique(): distinct values in order of first appearance,
\* the missing value included.
RECURSIVE Unique(_)
Unique(cells) ==
    IF cells = <<>> THEN <<>>
    ELSE LET front == Unique(SubSeq(cells, 1, Len(cells) - 1))
             last  == cells[Len(cells)]
         IN  IF last \in Range(front) THEN front ELSE Append(front, last)

\* Faulty variant: a missing value compared with ==, which never matches.
IsIn_NaNNeverEqual(c, values) == ~IsNa(c) /\ c \in values

\* Series.isin(values) on one cell: membership, a missing value matching a
\* missing value.
IsIn(c, values) == c \in values

\* Line 107: df[df[filter_col].isin(selected_values)]
RECURSIVE KeepRows(_, _, _, _)
KeepRows(rows, j, values, i) ==
    IF i > Len(rows) THEN <<>>
    ELSE (IF IsIn(rows[i][j], values) THEN <<rows[i]>> ELSE <<>>)
         \o KeepRows(rows, j, values, i + 1)
FilterRows(df, filter_col, selected_values) ==
    Frame(df.columns, df.dtypes,
          KeepRows(df.rows, ColIndex(df, filter_col), selected_values, 1))

\* Series.sum(): missing values are skipped.
RECURSIVE SumCells(_)
SumCells(cells) ==
    IF cells = <<>> THEN 0
    ELSE (IF IsNa(cells[1]) THEN 0 ELSE cells[1].n) + SumCells(Tail(cells))
\* Series.mean() as the pair (sum, count) of the values that are present.
RECURSIVE CountPresent(_)
CountPresent(cells) ==
    IF cells = <<>> THEN 0
    ELSE (IF IsNa(cells[1]) THEN 0 ELSE 1) + CountPresent(Tail(cells))
Mean(cells) == <<SumCells(cells), CountPresent(cells)>>
\* Series.nunique(): distinct values that are present.
NUnique(cells) == Cardinality({c \in Range(cells) : ~IsNa(c)})

\* df.groupby(key)[val].sum(): one total per distinct key that is present
\* (rows whose key is missing belong to no group), as a set of (key, total).
GroupKeys(df, key) == {c \in Range(Series(df, key)) : ~IsNa(c)}
RECURSIVE SumWhere(_, _, _, _, _)
SumWhere(rows, jk, jv, k, i) ==
    IF i > Len(rows) THEN 0
    ELSE (IF rows[i][jk] = k /\ ~IsNa(rows[i][jv]) THEN rows[i][jv].n ELSE 0)
         + SumWhere(rows, jk, jv, k, i + 1)
GroupSum(df, key, val) ==
    { <<k, SumWhere(df.rows, ColIndex(df, key), ColIndex(df, val), k, 1)>> :
        k \in GroupKeys(df, key) }

\* Faulty variant: the groups in descending key order.
RECURSIVE DescendingByKey(_)
DescendingByKey(groups) ==
    IF groups = {} THEN <<>>
    ELSE LET g == CHOOSE x \in groups : \A y \in groups : x[1].n >= y[1].n
         IN  <<g>> \o DescendingByKey(groups \ {g})

\* .reset_index() of a grouped series: rows in ascending key order (groupby
\* sorts its keys); used for the timestamps of the trend.
RECURSIVE AscendingByKey(_)
AscendingByKey(groups) ==
    IF groups = {} THEN <<>>
    ELSE LET g == CHOOSE x \in groups : \A y \in groups : x[1].n <= y[1].n
         IN  <<g>> \o AscendingByKey(groups \ {g})

\* Faulty variant: sort_values() with its default, ascending=True.
RECURSIVE SortValuesAscending(_)
SortValuesAscending(groups) ==
    IF groups = {} THEN {<<>>}
    ELSE UNION { {<<g>> \o rest : rest \in SortValuesAscending(groups \ {g})} :
                 g \in {x \in groups : \A y \in groups : x[2] <= y[2]} }

\* .sort_values(ascending=False): every order of the groups with totals
\* descending; the default sort is not stable, so equal totals may come in
\* any order.
RECURSIVE SortValuesDescending(_)
SortValuesDescending(groups) ==
    IF groups = {} THEN {<<>>}
    ELSE UNION { {<<g>> \o rest : rest \in SortValuesDescending(groups \ {g})} :
                 g \in {x \in groups : \A y \in groups : x[2] >= y[2]} }

\* .head(n)
Head_(seq, n) == SubSeq(seq, 1, IF n < Len(seq) THEN n ELSE Len(seq))

\* ------------------------------------------------------- schema inference
\* Python's None, and a name that no assignment has bound yet.
PyNone == "<None>"
Unbound == "<unbound>"
Truthy(x) == x # PyNone /\ x # ""

\* Faulty variant: the loop without its break: the last match wins.
RECURSIVE FindSalesCol_NoBreak(_, _)
FindSalesCol_NoBreak(columns, i) ==
    IF i > Len(columns) THEN PyNone
    ELSE LET later == FindSalesCol_NoBreak(columns, i + 1)
         IN  IF later # PyNone THEN later
             ELSE IF IsSalesName(columns[i]) THEN columns[i]
             ELSE PyNone

\* Lines 120-124: the loop over df.columns that stops at the first match.
RECURSIVE FindSalesCol(_, _)
FindSalesCol(columns, i) ==
    IF i > Len(columns) THEN PyNone
    ELSE IF IsSalesName(columns[i]) THEN columns[i]
    ELSE FindSalesCol(columns, i + 1)

\* Lines 143-147.
RECURSIVE FindProductCol(_, _)
FindProductCol(columns, i) ==
    IF i > Len(columns) THEN PyNone
    ELSE IF IsProductName(columns[i]) THEN columns[i]
    ELSE FindProductCol(columns, i + 1)

\* Lines 126-147: product_col is assigned only inside `if sales_col:`.
ProductColAfterMetrics(columns, sales_col) ==
    IF Truthy(sales_col) THEN FindProductCol(columns, 1) ELSE Unbound

\* ------------------------------------------------------------ widgets
SourceUpload == "Upload CSV File"
SourceDrive == "Load from Google Drive"
\* Line 176: st.slider("Show top N products:", 5, 20, 10)
SliderMin == 5
SliderMax == 20
SliderDefault == 10
\* Lines 213 and 221
PieTop == 8

\* Widget state the framework keeps between runs.  A widget keeps its value
\* while it is drawn with the same label and options; a widget that a run does
\* not draw is forgotten and starts from its default when drawn again.
NoBox == [options |-> <<>>, value |-> "None"]
NoSelect == [col |-> "None", options |-> <<>>, value |-> {}]
NoSlider == [drawn |-> FALSE, value |-> SliderDefault]
\* The positions a user drags the slider to: both ends, the default, and one
\* step above the minimum.
SliderStops == {SliderMin, SliderMin + 1, SliderDefault, SliderMax}

\* The disk file of line 72.
NoTemp == [exists |-> FALSE, sheet |-> EmptySheet]
TempOf(sheet) == [exists |-> TRUE, sheet |-> sheet]

Call(fn, res) == [fn |-> fn, res |-> res]

\* -------------------------------------------------------- data acquisition
\* Lines 51-59: the upload branch.  The parser is chosen by the file name and
\* any exception leaves df None.
AcquireUpload(uploaded_file, temp) ==
    IF uploaded_file = NoFile
    THEN [has |-> FALSE, table |-> EmptyFrame, temp |-> temp, calls |-> <<>>,
          sidebar |-> "none"]
    ELSE LET csv == EndsWith(Spelling(uploaded_file.name), ExtCsv)
             fn  == IF csv THEN "pd.read_csv" ELSE "pd.read_excel"
             ok  == uploaded_file.format = (IF csv THEN "csv" ELSE "xlsx")
         IN  IF ok
             THEN [has |-> TRUE, table |-> ParseSheet(uploaded_file.sheet),
                   temp |-> temp, calls |-> <<Call(fn, "ok")>>,
                   sidebar |-> "success"]
             ELSE [has |-> FALSE, table |-> EmptyFrame, temp |-> temp,
                   calls |-> <<Call(fn, "raised")>>, sidebar |-> "error"]

\* Faulty variant: the download started without looking at the identifier.
HasFileId_Unchecked(file_id) == TRUE

\* Line 68: `if file_id:`
HasFileId(file_id) == Truthy(file_id)

\* Lines 67-79: the Google Drive branch.  net is what gdown.download does this
\* time: "ok" writes the file; "raised" is a failure reported by an exception;
\* "returned_none" is a failure gdown reports on stderr, returning None without
\* writing anything.  The return value is not looked at, so pd.read_csv then
\* reads whatever is at the output path.
AcquireDrive(file_id, clicked, temp, net) ==
    IF ~clicked
    THEN [has |-> FALSE, table |-> EmptyFrame, temp |-> temp, calls |-> <<>>,
          sidebar |-> "none"]
    ELSE IF ~HasFileId(file_id)
    THEN [has |-> FALSE, table |-> EmptyFrame, temp |-> temp, calls |-> <<>>,
          sidebar |-> "warning"]
    ELSE IF net = "raised"
    THEN [has |-> FALSE, table |-> EmptyFrame, temp |-> temp,
          calls |-> <<Call("gdown.download", "raised")>>, sidebar |-> "error"]
    ELSE LET disk == IF net = "ok" THEN TempOf(DriveFile(file_id)) ELSE temp
             down == Call("gdown.download", net)
         IN  IF disk.exists
             THEN [has |-> TRUE, table |-> ParseSheet(disk.sheet), temp |-> disk,
                   calls |-> <<down, Call("pd.read_csv", "ok")>>,
                   sidebar |-> "success"]
             ELSE [has |-> FALSE, table |-> EmptyFrame, temp |-> disk,
                   calls |-> <<down, Call("pd.read_csv", "raised")>>,
                   sidebar |-> "error"]

\* Lines 43-79.
Acquire(data_source, uploaded_file, file_id, clicked, temp, net) ==
    IF data_source = SourceUpload
    THEN AcquireUpload(uploaded_file, temp)
    ELSE AcquireDrive(file_id, clicked, temp, net)

\* ------------------------------------------------------------- the render
\* The script's blocks, each taking the names bound so far (the record c) and
\* adding the ones it binds.

\* Lines 84-86: date columns by name, the first one converted.
InferDates(table) ==
    [table |-> table, date_columns |-> DateColumns(table), df0 |-> CoerceDates(table)]

\* Lines 96-99: the selectbox, drawn when there is a text column; it keeps the
\* user's choice while its options stay the same.
FilterColumnWidget(c, filter_box) ==
    LET categorical_cols ==
            IF Len(c.df0.columns) > 0 THEN CategoricalCols(c.df0) ELSE <<>>
    IN  c @@ [categorical_cols |-> categorical_cols,
              filter_col |->
                  IF categorical_cols # <<>> /\ filter_box.options = categorical_cols
                  THEN filter_box.value ELSE "None"]

\* Lines 100-106: the multiselect, all values selected by default.
FilterValuesWidget(c, value_select) ==
    LET drawn == c.filter_col # "None"
        unique_values ==
            IF drawn THEN Unique(Series(c.df0, c.filter_col)) ELSE <<>>
    IN  c @@ [unique_values |-> unique_values,
              selected_values |->
                  IF ~drawn THEN {}
                  ELSE IF value_select.col = c.filter_col
                          /\ value_select.options = unique_values
                       THEN value_select.value
                       ELSE Range(unique_values)]

\* Line 107: df is rebound to the filtered rows.
FilterStage(c) ==
    c @@ [df |-> IF c.filter_col # "None"
                 THEN FilterRows(c.df0, c.filter_col, c.selected_values)
                 ELSE c.df0]

\* Lines 119-124 and 143-147: the amount and category columns.
FindRoles(c) ==
    LET sales_col == FindSalesCol(c.df.columns, 1)
    IN  c @@ [sales_col |-> sales_col,
              product_col |-> ProductColAfterMetrics(c.df.columns, sales_col)]

HasSales(c) == Truthy(c.sales_col)
HasProduct(c) == c.product_col # Unbound /\ Truthy(c.product_col)

\* Lines 126-150: the four metrics, all inside `if sales_col:`.
KeyMetrics(c) ==
    IF HasSales(c)
    THEN c @@ [metrics |-> {"total_sales", "avg_sales", "total_transactions"}
                           \cup (IF HasProduct(c) THEN {"unique_products"} ELSE {}),
               total_sales |-> SumCells(Series(c.df, c.sales_col)),
               avg_sales |-> Mean(Series(c.df, c.sales_col)),
               total_transactions |-> Len(c.df.rows),
               unique_products |->
                   IF HasProduct(c) THEN NUnique(Series(c.df, c.product_col)) ELSE 0]
    ELSE c @@ [metrics |-> {}, total_sales |-> 0, avg_sales |-> <<0, 0>>,
               total_transactions |-> 0, unique_products |-> 0]

\* Line 163: df.groupby(date_col)[sales_col].sum().reset_index()
TrendFrame(df, date_col, sales_col) ==
    LET g == AscendingByKey(GroupSum(df, date_col, sales_col))
    IN  [i \in DOMAIN g |-> <<g[i][1].n, g[i][2]>>]

\* Lines 161-170: the trend chart, or the note that there is no date column.
TrendChart(c) ==
    IF c.date_columns # <<>> /\ HasSales(c)
    THEN c @@ [trend |-> {"trend_chart"},
               trend_df |-> TrendFrame(c.df, c.date_columns[1], c.sales_col)]
    ELSE c @@ [trend |-> {"trend_info"}, trend_df |-> <<>>]

\* Line 173 reads product_col: a NameError when no assignment has bound it.
RaisesNameError(c) == c.product_col = Unbound
TopDrawn(c) == ~RaisesNameError(c) /\ HasProduct(c) /\ HasSales(c)

\* Line 176: the slider's value in this run.
TopN(c, slider) == IF slider.drawn THEN slider.value ELSE SliderDefault

\* Line 178 (and 213): the per-category totals in each order the descending
\* sort may give them.
SortedProductSales(c) ==
    IF TopDrawn(c)
    THEN SortValuesDescending(GroupSum(c.df, c.product_col, c.sales_col))
    ELSE {<<>>}

Labelled(groups) == [i \in DOMAIN groups |-> <<groups[i][1].s, groups[i][2]>>]

\* Lines 172-267: everything drawn from line 172 to the end of the script.
AfterTrend(c) ==
    (IF TopDrawn(c) THEN {"top_n_slider", "top_n_chart", "pie", "treemap"} ELSE {})
    \cup (IF HasSales(c) THEN {"histogram", "box_plot", "download_summary"} ELSE {})
    \cup (IF Len(NumericCols(c.df)) >= 2 THEN {"heatmap"} ELSE {"heatmap_info"})
    \cup {"download_csv"}

\* What one run leaves on the page.  shown names the elements drawn; the value
\* fields hold what they display (0, <<>> or {} when not computed).
Page(c, show_raw, slider, sorted) ==
    [status |-> IF RaisesNameError(c) THEN "NameError" ELSE "dashboard",
     has_table |-> TRUE,
     table |-> c.table,
     df |-> c.df,
     date_columns |-> c.date_columns,
     categorical_cols |-> c.categorical_cols,
     filter_col |-> c.filter_col,
     unique_values |-> c.unique_values,
     selected_values |-> c.selected_values,
     sales_col |-> c.sales_col,
     product_col |-> c.product_col,
     shown |-> (IF show_raw THEN {"raw_data"} ELSE {})
               \cup c.metrics \cup c.trend
               \cup (IF RaisesNameError(c) THEN {} ELSE AfterTrend(c)),
     total_sales |-> c.total_sales,
     avg_sales |-> c.avg_sales,
     total_transactions |-> c.total_transactions,
     unique_products |-> c.unique_products,
     trend_df |-> c.trend_df,
     top_n |-> IF TopDrawn(c) THEN TopN(c, slider) ELSE 0,
     product_sales |-> Labelled(Head_(sorted, TopN(c, slider))),
     pie_data |-> Labelled(Head_(sorted, PieTop))]

Pages(c, show_raw, slider) ==
    {Page(c, show_raw, slider, sorted) : sorted \in SortedProductSales(c)}

\* Lines 82-267: the dashboard for the DataFrame `table`, given the widget
\* state: the set of pages the run may produce.
Dashboard(table, show_raw, filter_box, value_select, slider) ==
    Pages(TrendChart(KeyMetrics(FindRoles(FilterStage(
              FilterValuesWidget(
                  FilterColumnWidget(InferDates(table), filter_box),
                  value_select))))),
          show_raw, slider)

\* Lines 269-300: no DataFrame, the welcome screen.
Welcome ==
    [status |-> "welcome", has_table |-> FALSE, table |-> EmptyFrame,
     df |-> EmptyFrame, date_columns |-> <<>>, categorical_cols |-> <<>>,
     filter_col |-> "None", unique_values |-> <<>>, selected_values |-> {},
     sales_col |-> PyNone, product_col |-> Unbound, shown |-> {"welcome"},
     total_sales |-> 0, avg_sales |-> <<0, 0>>, total_transactions |-> 0,
     unique_products |-> 0, trend_df |-> <<>>, top_n |-> 0,
     product_sales |-> <<>>, pie_data |-> <<>>]

\* The widget state the framework holds after a run that left page p: a
\* widget the run did not draw is forgotten.
StoredRaw(p, show_raw) == p.has_table /\ show_raw
StoredBox(p) ==
    IF p.categorical_cols # <<>>
    THEN [options |-> p.categorical_cols, value |-> p.filter_col]
    ELSE NoBox
StoredSelect(p) ==
    IF p.filter_col # "None"
    THEN [col |-> p.filter_col, options |-> p.unique_values,
          value |-> p.selected_values]
    ELSE NoSelect
StoredSlider(p) ==
    IF "top_n_slider" \in p.shown THEN [drawn |-> TRUE, value |-> p.top_n]
    ELSE NoSlider

\* One full run of the script (lines 1-304).
Script(data_source, uploaded_file, file_id, clicked, temp, net, show_raw, filter_box, value_select, slider) ==
    LET a == Acquire(data_source, uploaded_file, file_id, clicked, temp, net)
    IN  { [acq |-> a, page |-> r] :
          r \in IF a.has
                THEN Dashboard(a.table, show_raw, filter_box, value_select, slider)
                ELSE {Welcome} }

\* ------------------------------------------------------------------ state
VARIABLES
    data_source,    \* the radio of line 38
    uploaded_file,  \* the file held by the uploader of line 46
    file_id,        \* the text input of line 65
    temp_file,      \* temp_sales_data.csv on disk
    show_raw,       \* the checkbox of line 93
    filter_box,     \* the selectbox of line 99
    value_select,   \* the multiselect of line 102
    slider,         \* the slider of line 176
    calls,          \* the library calls of the last run, with their results
    sidebar,        \* the sidebar message of the last run
    page            \* what the last run rendered

vars == <<data_source, uploaded_file, file_id, temp_file, show_raw, filter_box,
          value_select, slider, calls, sidebar, page>>

\* The script runs with the widgets as the user's interaction left them.
Rerun(ds, uf, fid, clicked, net, sr, fb, vs, sl) ==
    \E o \in Script(ds, uf, fid, clicked, temp_file, net, sr, fb, vs, sl) :
        /\ data_source' = ds
        /\ uploaded_file' = uf
        /\ file_id' = fid
        /\ temp_file' = o.acq.temp
        /\ calls' = o.acq.calls
        /\ sidebar' = o.acq.sidebar
        /\ page' = o.page
        /\ show_raw' = StoredRaw(o.page, sr)
        /\ filter_box' = StoredBox(o.page)
        /\ value_select' = StoredSelect(o.page)
        /\ slider' = StoredSlider(o.page)

\* The first run of a session: the defaults, nothing uploaded.
Init ==
    /\ data_source = SourceUpload
    /\ uploaded_file = NoFile
    /\ file_id = ""
    /\ temp_file = NoTemp
    /\ calls = <<>>
    /\ sidebar = "none"
    /\ page = Welcome
    /\ show_raw = FALSE
    /\ filter_box = NoBox
    /\ value_select = NoSelect
    /\ slider = NoSlider

\* The radio is switched; the widgets of the other branch are no longer drawn
\* and lose what they held.
ChooseDataSource ==
    \E ds \in {SourceUpload, SourceDrive} :
        /\ ds # data_source
        /\ Rerun(ds, NoFile, "", FALSE, "ok",
                 show_raw, filter_box, value_select, slider)

UploadFile ==
    \E f \in UploadedFiles :
        /\ data_source = SourceUpload
        /\ f # uploaded_file
        /\ uploaded_file = NoFile \/ f \in ReplacementFiles
        /\ Rerun(data_source, f, file_id, FALSE, "ok",
                 show_raw, filter_box, value_select, slider)

RemoveFile ==
    /\ data_source = SourceUpload
    /\ uploaded_file # NoFile
    /\ Rerun(data_source, NoFile, file_id, FALSE, "ok",
             show_raw, filter_box, value_select, slider)

TypeFileId ==
    \E id \in FileIds :
        /\ data_source = SourceDrive
        /\ id # file_id
        /\ Rerun(data_source, uploaded_file, id, FALSE, "ok",
                 show_raw, filter_box, value_select, slider)

\* The Load Data button: st.button is True in the run the click triggers only.
ClickLoad ==
    \E net \in DownloadResults(file_id) :
        /\ data_source = SourceDrive
        /\ Rerun(data_source, uploaded_file, file_id, TRUE, net,
                 show_raw, filter_box, value_select, slider)

ToggleRaw ==
    /\ page.has_table
    /\ Rerun(data_source, uploaded_file, file_id, FALSE, "ok",
             ~show_raw, filter_box, value_select, slider)

SelectFilterColumn ==
    \E c \in {"None"} \cup Range(filter_box.options) :
        /\ filter_box.options # <<>>
        /\ c # filter_box.value
        /\ Rerun(data_source, uploaded_file, file_id, FALSE, "ok",
                 show_raw, [filter_box EXCEPT !.value = c], value_select, slider)

\* One value is added to or removed from the multiselect.
SelectValues ==
    \E x \in Range(value_select.options) :
        /\ value_select.col # "None"
        /\ Rerun(data_source, uploaded_file, file_id, FALSE, "ok",
                 show_raw, filter_box,
                 [value_select EXCEPT !.value =
                     IF x \in @ THEN @ \ {x} ELSE @ \cup {x}],
                 slider)

MoveSlider ==
    \E n \in SliderStops :
        /\ slider.drawn
        /\ n # slider.value
        /\ Rerun(data_source, uploaded_file, file_id, FALSE, "ok",
                 show_raw, filter_box, value_select, [slider EXCEPT !.value = n])

Next ==
    \/ ChooseDataSource
    \/ UploadFile
    \/ RemoveFile
    \/ TypeFileId
    \/ ClickLoad
    \/ ToggleRaw
    \/ SelectFilterColumn
    \/ SelectValues
    \/ MoveSlider

Spec == Init /\ [][Next]_vars

\* ================================================================ claims
\* Helpers of the statements below, written from the statements' own words.

\* The rows of df whose cell in column col equals v.
RowsWith(df, col, v) ==
    LET j == ColIndex(df, col)
        Has(r) == r[j] = v
    IN  SelectSeq(df.rows, Has)
\* The sum of the amounts that are present in the given rows.
RECURSIVE AmountOf(_, _)
AmountOf(rows, j) ==
    IF rows = <<>> THEN 0
    ELSE (IF rows[1][j].t = "num" THEN rows[1][j].n ELSE 0) + AmountOf(Tail(rows), j)
\* The total of the amount column over the rows whose column col is v.
TotalWhere(df, col, v, amount) == AmountOf(RowsWith(df, col, v), ColIndex(df, amount))
\* The values of a column that are present.
Present(df, col) == {r[ColIndex(df, col)] : r \in Range(df.rows)} \ {NaN}
\* The sum of the totals of a set of (key, total) pairs.
RECURSIVE SumOfTotals(_)
SumOfTotals(groups) ==
    IF groups = {} THEN 0
    ELSE LET g == CHOOSE x \in groups : TRUE
         IN  g[2] + SumOfTotals(groups \ {g})
\* name, lower-cased, contains one of the keywords.
HasKeyword(name, keywords) ==
    LET w == Lower(Spelling(name))
    IN  \E kw \in keywords : \E a, b \in 1..Len(w) : SubSeq(w, a, b) = kw
\* r is the first column of columns with one of the keywords, or PyNone when
\* there is none.
IsFirstWith(columns, r, keywords) ==
    IF r = PyNone
    THEN \A i \in DOMAIN columns : ~HasKeyword(columns[i], keywords)
    ELSE \E i \in DOMAIN columns :
            /\ columns[i] = r
            /\ HasKeyword(r, keywords)
            /\ \A j \in 1..(i - 1) : ~HasKeyword(columns[j], keywords)
DateKeywords == {KwDate}
AmountKeywords == {KwSales, KwRevenue, KwAmount}
CategoryKeywords == {KwProduct, KwCategory, KwItem}
DateRole == IF page.date_columns = <<>> THEN PyNone ELSE page.date_columns[1]

\* A widget interaction that is no load and no change of data source.
OtherInteraction == ToggleRaw \/ SelectFilterColumn \/ SelectValues \/ MoveSlider

\* C1: every successfully loaded Table, whatever role columns it has, is
\* rendered to the end of the pipeline (all tabs and the export); a missing
\* role column never aborts the run.
C1_RenderReachesExport ==
    page.has_table =>
        /\ page.status = "dashboard"
        /\ "download_csv" \in page.shown
        /\ {"heatmap", "heatmap_info"} \cap page.shown # {}

\* C2: once loaded, the Table stays the current Table across every later
\* interaction that is neither a re-load nor a change of data source.
C2_TableStaysCurrent ==
    [][(page.has_table /\ OtherInteraction)
        => (page'.has_table /\ page'.table = page.table)]_vars

\* C3: each role gets at most one column, the first in column order whose
\* lower-cased name contains one of the role's keywords, whatever the rows and
\* the filter are.
C3_RolesFirstMatch ==
    page.has_table =>
        /\ IsFirstWith(page.table.columns, DateRole, DateKeywords)
        /\ IsFirstWith(page.table.columns, page.sales_col, AmountKeywords)
        /\ page.product_col # Unbound =>
               IsFirstWith(page.table.columns, page.product_col, CategoryKeywords)
        /\ Truthy(page.sales_col) => page.product_col # Unbound
C3_Witness ==
    /\ page.has_table
    /\ page.table.columns = <<"Region", "Item", "Product", "REVENUE", "Sales">>
    /\ page.sales_col = "REVENUE"
    /\ page.product_col = "Item"
    /\ page.filter_col = "Item"
    /\ Len(page.df.rows) < Len(page.table.rows)

\* C4: the filter returns exactly the rows whose value in the chosen column is
\* in the permitted set, in order, with the same columns; with no column
\* chosen, or all observed values (the missing one included) permitted, the
\* result is the loaded Table.
C4_FilterExact ==
    page.has_table =>
        LET input == CoerceDates(page.table)
            Permitted(r) == r[ColIndex(input, page.filter_col)] \in page.selected_values
        IN  /\ page.df.columns = input.columns
            /\ page.df.dtypes = input.dtypes
            /\ page.filter_col = "None" => page.df = input
            /\ page.filter_col # "None" =>
                   /\ page.df.rows = SelectSeq(input.rows, Permitted)
                   /\ (\A r \in Range(input.rows) : Permitted(r)) => page.df = input
C4_Witness ==
    /\ page.has_table
    /\ page.filter_col = "Product"
    /\ page.selected_values = {Str("A"), NaN}
    /\ Len(page.df.rows) = 2
    /\ Len(page.table.rows) = 3
    /\ \E i \in DOMAIN page.df.rows : page.df.rows[i][2] = NaN

\* C5: with an amount and a category column, Total Sales equals the sum of the
\* per-category totals before truncation, also when rows lack a category.
C5_SumDecomposition ==
    (page.has_table /\ Truthy(page.sales_col) /\ Truthy(page.product_col)
        /\ page.product_col # Unbound) =>
        page.total_sales =
            SumOfTotals(GroupSum(page.df, page.product_col, page.sales_col))

\* C6: without an amount column the metrics still report the row count of
\* the filtered Table, and the distinct-category count when there is a
\* category column.
C6_RowCountWithoutAmount ==
    (page.has_table /\ ~Truthy(page.sales_col)) =>
        /\ "total_sales" \notin page.shown
        /\ "avg_sales" \notin page.shown
        /\ "total_transactions" \in page.shown
        /\ page.total_transactions = Len(page.df.rows)
        /\ (\E i \in DOMAIN page.df.columns :
                HasKeyword(page.df.columns[i], CategoryKeywords))
            => "unique_products" \in page.shown

\* The state part of C7: what the top-N chart holds.
TopNChartIsTopN ==
    "top_n_chart" \in page.shown =>
        LET ps == page.product_sales
            cats == Present(page.df, page.product_col)
            Total(k) == TotalWhere(page.df, page.product_col, k, page.sales_col)
            chosen == {Str(ps[i][1]) : i \in DOMAIN ps}
        IN  /\ 5 <= page.top_n /\ page.top_n <= 20
            /\ Len(ps) <= page.top_n
            /\ Len(ps) = IF Cardinality(cats) < page.top_n
                         THEN Cardinality(cats) ELSE page.top_n
            /\ \A i, j \in DOMAIN ps : i < j => ps[i][2] >= ps[j][2]
            /\ \A i, j \in DOMAIN ps : i # j => ps[i][1] # ps[j][1]
            /\ \A i \in DOMAIN ps : Str(ps[i][1]) \in cats /\ ps[i][2] = Total(Str(ps[i][1]))
            /\ \A k \in cats \ chosen : \A i \in DOMAIN ps : ps[i][2] >= Total(k)
\* C7: the top-N chart holds at most N (category, total) pairs, totals
\* descending, 5 <= N <= 20, and they are the N largest per-category totals of
\* the filtered Table; N is 10 when the slider first appears.
C7_TopN ==
    /\ []TopNChartIsTopN
    /\ [][("top_n_slider" \notin page.shown /\ "top_n_slider" \in page'.shown)
            => page'.top_n = 10]_vars
C7_Witness ==
    /\ "top_n_chart" \in page.shown
    /\ page.top_n = 5
    /\ Len(page.product_sales) = 5
    /\ Cardinality(Present(page.df, page.product_col)) = 6
    /\ page.product_sales[1][2] > page.product_sales[5][2]

\* C8: Load Data with an empty identifier makes no download call, touches no
\* temporary file and ends with no Table.
C8_EmptyIdentifier ==
    [][(ClickLoad /\ file_id = "")
        => (calls' = <<>> /\ temp_file' = temp_file /\ ~page'.has_table
            /\ page'.status = "welcome")]_vars
C8_Witness ==
    /\ data_source = SourceDrive
    /\ file_id = ""
    /\ sidebar = "warning"
    /\ temp_file.exists
    /\ ~page.has_table

\* C9: a failed load (malformed upload, failed download) ends the interaction
\* with no Table, nothing of an earlier load shown, after one attempt.
C9_FailedLoadShowsNothing ==
    (\E i \in DOMAIN calls : calls[i].res \in {"raised", "returned_none"}) =>
        /\ ~page.has_table
        /\ page.status = "welcome"
        /\ \A i, j \in DOMAIN calls : calls[i].fn = calls[j].fn => i = j

\* C10: with a date and an amount column the trend holds one (date, total)
\* pair per distinct date of the filtered Table, dates ascending, each total
\* the sum of the amounts of that date's rows; the documented example gives
\* [(2024-01-01, 150), (2024-01-02, 30)] and a total of 180.
C10_TimeSeries ==
    /\ (page.has_table /\ page.date_columns # <<>> /\ Truthy(page.sales_col))
           <=> "trend_chart" \in page.shown
    /\ "trend_chart" \in page.shown =>
        LET t == page.trend_df
            dates == Present(page.df, DateRole)
        IN  /\ Len(t) = Cardinality(dates)
            /\ \A i \in DOMAIN t :
                   /\ Stamp(t[i][1]) \in dates
                   /\ t[i][2] = TotalWhere(page.df, DateRole, Stamp(t[i][1]), page.sales_col)
            /\ \A i, j \in DOMAIN t : i < j => t[i][1] < t[j][1]
    /\ (page.has_table /\ page.filter_col = "None"
        /\ page.table.columns = <<"Date", "Product", "Sales">>
        /\ page.table.rows = << <<Str("2024-01-01"), Str("A"), Num(100)>>,
                                <<Str("2024-01-01"), Str("B"), Num(50)>>,
                                <<Str("2024-01-02"), Str("A"), Num(30)>> >>)
       => /\ page.trend_df = << <<20240101, 150>>, <<20240102, 30>> >>
          /\ page.total_sales = 180
C10_Witness ==
    /\ "trend_chart" \in page.shown
    /\ page.table.rows = << <<Str("2024-01-01"), Str("A"), Num(100)>>,
                            <<Str("2024-01-01"), Str("B"), Num(50)>>,
                            <<Str("2024-01-02"), Str("A"), Num(30)>> >>
    /\ page.filter_col = "None"
    /\ Len(page.trend_df) = 2

====
